---- MODULE Spec2Model ----
(***************************************************************************)
(* LangExtract API (src/app.py, src/models.py): an HTTP wrapper around the *)
(* langextract library.  The model covers the five routes, the shared      *)
(* _extract helper, the request schema's defaults and the artifact files   *)
(* that /visualize writes and /artifacts/html serves.                      *)
(*                                                                         *)
(* Handlers are plain "def" routes, which the framework runs on a thread   *)
(* pool: every request lives in a slot of "reqs".  /visualize is split at  *)
(* each call that touches the file system or an external capability, so    *)
(* two requests interleave; the other handlers touch no shared state and   *)
(* are one step each.                                                      *)
(*                                                                         *)
(* Text is modelled as sequences of chunks (strings): a path is a sequence *)
(* of components, a component a sequence of chunks, and str(path) is the   *)
(* chunk sequence with "/" before every component.  No chunk is a proper   *)
(* prefix of the chunk "artifacts", so a chunk-wise prefix test against    *)
(* str(ARTIFACTS_DIR) agrees with Python's character-wise str.startswith.  *)
(***************************************************************************)
EXTENDS Naturals, Sequences, FiniteSets, TLC

VARIABLES
    env,    \* value of the ALLOW_EMPTY_EXAMPLES environment variable
    now,    \* UTC wall clock, in seconds
    fs,     \* file system: resolved path -> entry
    reqs    \* request slot -> state of the request handled in it

vars == <<env, now, fs, reqs>>

-----------------------------------------------------------------------------
(* Bounds *)

\* last second the clock reaches
MaxTime == 1
\* number of distinct values uuid4()[:8] is drawn from
NumIds == 2
\* most examples in one request body
MaxExamples == 1
\* most optional fields present in one request body
MaxProvided == 2

\* request slots of the sequential and of the concurrent specification
SeqSlots == {"r1"}
ConcSlots == {"r1", "r2"}

-----------------------------------------------------------------------------
(* Process-wide configuration *)

\* Python's None, among string values
None == "None"
\* os.getenv(name) of a variable that is not set
Unset == "<unset>"

APP_NAME == "LangExtract API"
MODEL_DEFAULT == "gemini-2.5-flash"
API_KEY == "dev-key"

\* path components
CSrv == <<"srv">>
CArtifacts == <<"artifacts">>
CDotDot == <<"..">>

\* the working directory of the process
Cwd == <<CSrv>>
\* ARTIFACTS_DIR = (cwd / "artifacts").resolve()
ARTIFACTS_DIR == Cwd \o <<CArtifacts>>

-----------------------------------------------------------------------------
(* Paths: pathlib.Path, str(), .suffix, .resolve() *)

EmptyFcn == [x \in {} |-> None]

RECURSIVE Flatten(_)
Flatten(p) ==
    IF p = <<>> THEN <<>> ELSE <<"/">> \o Head(p) \o Flatten(Tail(p))

\* str(p) of an absolute path p
PathStr(p) == IF p = <<>> THEN <<"/">> ELSE Flatten(p)

\* s.startswith(t)
StartsWith(s, t) == Len(t) <= Len(s) /\ SubSeq(s, 1, Len(t)) = t

\* the chunks that are file extensions, and str.lower() on them
ExtChunks == {".html", ".HTML", ".txt", ".jsonl"}
Lower(c) ==
    CASE c = ".HTML" -> ".html"
      [] c = "TRUE" -> "true"
      [] c = "True" -> "true"
      [] OTHER -> c

\* p.suffix: the last dot-part of the final component, unless the name is
\* only that part (Path(".html").suffix is "")
Suffix(p) ==
    IF p = <<>> THEN ""
    ELSE LET c == p[Len(p)]
         IN IF Len(c) > 1 /\ c[Len(c)] \in ExtChunks THEN c[Len(c)] ELSE ""

\* an entry of the file system
Dir(by) == [kind |-> "dir", by |-> by, data |-> <<>>, target |-> <<>>]
File(by, data) == [kind |-> "file", by |-> by, data |-> data, target |-> <<>>]
Link(by, target) == [kind |-> "link", by |-> by, data |-> <<>>, target |-> target]

\* pathlib.Path(path).resolve(): made absolute against the working
\* directory, ".." collapsed, symbolic links followed (strict=False keeps
\* the components that do not exist)
RECURSIVE ResolveFrom(_, _, _)
ResolveFrom(fsys, cur, rest) ==
    IF rest = <<>> THEN cur
    ELSE LET c == Head(rest)
             q == Append(cur, c)
         IN IF c = CDotDot
            THEN ResolveFrom(fsys,
                     IF cur = <<>> THEN <<>> ELSE SubSeq(cur, 1, Len(cur) - 1),
                     Tail(rest))
            ELSE IF q \in DOMAIN fsys /\ fsys[q].kind = "link"
                 THEN ResolveFrom(fsys, fsys[q].target, Tail(rest))
                 ELSE ResolveFrom(fsys, q, Tail(rest))

Resolve(fsys, path) ==
    ResolveFrom(fsys, IF path.abs THEN <<>> ELSE Cwd, path.parts)

AbsPath(p) == [abs |-> TRUE, parts |-> p]
RelPath(p) == [abs |-> FALSE, parts |-> p]

\* p lies in the directory tree of root: root itself or a descendant
IsWithin(p, root) == Len(root) <= Len(p) /\ SubSeq(p, 1, Len(root)) = root

-----------------------------------------------------------------------------
(* The file system the service starts on *)

Pre == "pre"

COld == <<"old">>
CReport == <<"report", ".html">>
CSummary == <<"summary", ".HTML">>
CNotes == <<"notes", ".txt">>
CMissing == <<"missing", ".html">>
CSecret == <<"secret", ".html">>
CLink == <<"link">>
CEtc == <<"etc">>
CBackup == <<"artifacts", "_backup">>
CArtifactsHtml == <<"artifacts", ".html">>

\* ARTIFACTS_DIR exists after startup; an earlier run left files in it; the
\* host holds files outside it, some next to it under names that begin with
\* its name, and an operator linked a directory into it
InitFs ==
    (<<CSrv>> :> Dir(Pre))
 @@ (ARTIFACTS_DIR :> Dir(Pre))
 @@ (ARTIFACTS_DIR \o <<COld>> :> Dir(Pre))
 @@ (ARTIFACTS_DIR \o <<COld, CReport>> :> File(Pre, <<"html", Pre>>))
 @@ (ARTIFACTS_DIR \o <<COld, CSummary>> :> File(Pre, <<"html", Pre>>))
 @@ (ARTIFACTS_DIR \o <<COld, CNotes>> :> File(Pre, <<"text", Pre>>))
 @@ (ARTIFACTS_DIR \o <<CLink>> :> Link(Pre, <<CEtc>>))
 @@ (<<CEtc>> :> Dir(Pre))
 @@ (<<CEtc, CSecret>> :> File(Pre, <<"html", Pre>>))
 @@ (<<CSrv, CBackup>> :> Dir(Pre))
 @@ (<<CSrv, CBackup, CSecret>> :> File(Pre, <<"html", Pre>>))
 @@ (<<CSrv, CArtifactsHtml>> :> File(Pre, <<"html", Pre>>))

\* the paths a client asks /artifacts/html for, besides those of existing
\* files and directories
QueryPaths ==
    { AbsPath(ARTIFACTS_DIR \o <<COld, CMissing>>),
      AbsPath(ARTIFACTS_DIR \o <<CDotDot, CBackup, CSecret>>),
      AbsPath(ARTIFACTS_DIR \o <<COld, CDotDot, CDotDot, CDotDot, CEtc, CSecret>>),
      AbsPath(ARTIFACTS_DIR \o <<CLink, CSecret>>),
      AbsPath(<<CSrv, CBackup, CMissing>>),
      AbsPath(<<CEtc, CMissing>>),
      RelPath(<<CArtifacts, COld, CReport>>),
      RelPath(<<CDotDot, CEtc, CSecret>>) }

-----------------------------------------------------------------------------
(* Request bodies and the ExtractRequest schema (src/models.py) *)

ExtractionDTO ==
    [extraction_class |-> "person", extraction_text |-> "Jane", attributes |-> "{}"]
ExampleDataDTO ==
    [text |-> "Jane works at Globex.", extractions |-> <<ExtractionDTO>>]

\* text_or_documents: Union[str, List[str]]
TextInputs ==
    {[list |-> FALSE, docs |-> <<"John works at Acme.">>],
     [list |-> TRUE, docs |-> <<"John works at Acme.", "Ann works at Initech.">>]}

\* the optional scalar fields and the JSON values a caller sends for them
OptValues ==
    [extraction_passes |-> {None, "2"},
     max_workers       |-> {None, "4"},
     max_char_buffer   |-> {None, "1000"},
     model_id          |-> {None, "", "gemini-2.5-pro"},
     debug             |-> {None, "True", "False"}]
OptFields == DOMAIN OptValues
\* the tuning knobs the wrapper forwards to the capability
Knobs == {"extraction_passes", "max_workers", "max_char_buffer", "debug"}

OptMaps(S) ==
    {f \in [S -> UNION {OptValues[k] : k \in S}] : \A k \in S : f[k] \in OptValues[k]}

ExampleLists == {[i \in 1..n |-> ExampleDataDTO] : n \in 0..MaxExamples}

\* (a body the schema rejects, such as "examples": null, is answered 422 by
\* the framework and never reaches a handler)
\* a JSON body that passes schema validation: the required fields, the
\* optional ones the caller chose to send ("opt", and "examples" when
\* has_examples), at most MaxProvided of them
BodiesOver(S) ==
    {[text_or_documents |-> t,
      prompt_description |-> "extract person and org",
      has_examples |-> h, examples |-> e, opt |-> f] :
        t \in TextInputs, h \in BOOLEAN, e \in ExampleLists, f \in OptMaps(S)}
Bodies ==
    {b \in UNION {BodiesOver(S) : S \in {T \in SUBSET OptFields : Cardinality(T) <= MaxProvided}} :
        /\ ~b.has_examples => b.examples = <<>>
        /\ Cardinality(DOMAIN b.opt) + (IF b.has_examples THEN 1 ELSE 0) <= MaxProvided}

\* the bodies and headers of the requests that run concurrently: one text and
\* no optional scalar field
ConcBodies == {b \in Bodies : DOMAIN b.opt = {} /\ ~b.text_or_documents.list}
\* x-api-key as the framework hands it over: None when the header is absent
Headers == {None, "", "caller-key"}
ConcHeaders == {None}

\* the field defaults of ExtractRequest
FieldDefault ==
    [extraction_passes |-> None,
     max_workers       |-> None,
     max_char_buffer   |-> None,
     model_id          |-> None,
     debug             |-> "True"]

\* ExtractRequest as the schema layer builds it from a body
ExtractRequest(body) ==
    [text_or_documents  |-> body.text_or_documents,
     prompt_description |-> body.prompt_description,
     examples           |-> IF body.has_examples THEN body.examples ELSE <<>>]
 @@ [k \in OptFields |-> IF k \in DOMAIN body.opt THEN body.opt[k] ELSE FieldDefault[k]]

\* the optional fields the caller wrote in the body
Provided(body) == DOMAIN body.opt \cup (IF body.has_examples THEN {"examples"} ELSE {})

NoBody ==
    [text_or_documents |-> [list |-> FALSE, docs |-> <<>>], prompt_description |-> "",
     has_examples |-> FALSE, examples |-> <<>>, opt |-> EmptyFcn]

-----------------------------------------------------------------------------
(* Auth dependency, example translation, _extract (src/app.py) *)

require_api_key_falsy(x_api_key) == IF x_api_key \notin {None, ""} THEN x_api_key ELSE API_KEY

require_api_key(x_api_key) == IF x_api_key # None THEN x_api_key ELSE API_KEY

\* Optional values of kwargs that are not strings
Nothing == [some |-> FALSE, val |-> <<>>]
Some(v) == [some |-> TRUE, val |-> v]

_to_examples(objs) ==
    IF Len(objs) = 0 THEN Nothing
    ELSE Some([i \in 1..Len(objs) |->
            [type |-> "ExampleData",
             text |-> objs[i].text,
             extractions |-> [j \in 1..Len(objs[i].extractions) |->
                [type |-> "Extraction",
                 extraction_class |-> objs[i].extractions[j].extraction_class,
                 extraction_text  |-> objs[i].extractions[j].extraction_text,
                 attributes       |-> objs[i].extractions[j].attributes]]]])

\* os.getenv(name, default)
Getenv(value, default) == IF value = Unset THEN default ELSE value
EnvValues == {Unset, "TRUE", "1"}

allow_empty_examples(value) == Lower(Getenv(value, "false")) = "true"

MSG_EXAMPLES ==
    "Examples are required for reliable extraction results. Set ALLOW_EMPTY_EXAMPLES=true to override for testing."

\* errors: the kinds the capabilities and the file system raise
NoExc == [kind |-> "", msg |-> ""]
Exc(kind, msg) == [kind |-> kind, msg |-> msg]
ValueErrorKinds == {"ValueError", "JSONDecodeError"}
IsValueError(e) == e.kind \in ValueErrorKinds
MSG_CAPABILITY == "capability failed"
MSG_OS == "No space left on device"

ExtractOutcomes == {"ok", "ValueError", "JSONDecodeError", "RuntimeError"}
MkdirOutcomes == {"ok", "OSError"}
SaveOutcomes == {"ok", "OSError"}
RenderOutcomes == {"ok", "ValueError", "RuntimeError"}
WriteOutcomes == {"ok", "OSError", "OSError after open"}

PreconditionFailsIsNone(req, allow) == "examples" \notin DOMAIN req /\ ~allow

\* line 65: not req.examples and not allow_empty_examples
PreconditionFails(req, allow) == Len(req.examples) = 0 /\ ~allow

\* line 73: req.model_id or MODEL_DEFAULT
ModelId(req) == IF req.model_id \in {None, ""} THEN MODEL_DEFAULT ELSE req.model_id

\* lines 69-84: the keys of kwargs
ForwardedKeys(req, api_key) ==
    {"text_or_documents", "prompt_description", "examples", "model_id"}
    \cup (IF api_key # None THEN {"api_key"} ELSE {})
    \cup {k \in Knobs : req[k] # None}

BuildKwargs(req, api_key) ==
    [k \in ForwardedKeys(req, api_key) |->
        CASE k = "examples" -> _to_examples(req.examples)
          [] k = "model_id" -> ModelId(req)
          [] k = "api_key"  -> api_key
          [] OTHER          -> req[k]]

NoRaw == [list |-> FALSE, docs |-> <<>>]
\* what lx.extract returns: one annotated document for a text, a list of them
\* for a list of texts
LxResult(kwargs) ==
    [list |-> kwargs.text_or_documents.list,
     docs |-> [i \in 1..Len(kwargs.text_or_documents.docs) |-> "AnnotatedDocument"]]

\* _extract with return_raw=True; outcome is what lx.extract does when called
_extract(req, api_key, envValue, outcome) ==
    IF PreconditionFails(req, allow_empty_examples(envValue))
    THEN [called |-> FALSE, kwargs |-> EmptyFcn, raw |-> NoRaw,
          exc |-> Exc("ValueError", MSG_EXAMPLES)]
    ELSE LET kwargs == BuildKwargs(req, api_key)
         IN [called |-> TRUE, kwargs |-> kwargs,
             raw |-> IF outcome = "ok" THEN LxResult(kwargs) ELSE NoRaw,
             exc |-> IF outcome = "ok" THEN NoExc ELSE Exc(outcome, MSG_CAPABILITY)]

\* jsonable_encoder(raw, exclude_none=False): a dict per document
jsonable_encoder(raw) == [list |-> raw.list, docs |-> [i \in 1..Len(raw.docs) |-> "dict"]]

\* line 137: raw_results if isinstance(raw_results, list) else [raw_results]
AsList(raw) == IF raw.list THEN raw.docs ELSE <<raw.docs[1]>>

\* the JSONL file save_annotated_documents writes for request r: a line per
\* document
JsonlOf(r, raw) == <<"jsonl", r, ToString(Len(AsList(raw)))>>

-----------------------------------------------------------------------------
(* Request slots and HTTP responses *)

NoResult == [type |-> "none"]

IdleReq ==
    [op |-> "idle", pc |-> "idle",
     body |-> NoBody, header |-> None, api_key |-> None, query |-> AbsPath(<<>>),
     called |-> FALSE, kwargs |-> EmptyFcn, raw |-> NoRaw,
     exc |-> NoExc, failed_at |-> "",
     base |-> <<>>, html_text |-> <<>>, wrote |-> EmptyFcn, trace |-> <<>>,
     status |-> 0, detail |-> <<>>, result |-> NoResult]

\* the two except clauses of extract and visualize: HTTPException(400, str(e))
\* for a ValueError, HTTPException(500, prefix + str(e)) for anything else
HttpError(prefix, e) ==
    IF IsValueError(e)
    THEN [status |-> 400, detail |-> <<e.msg>>]
    ELSE [status |-> 500, detail |-> <<prefix, e.msg>>]

Respond(q, status, detail, result) ==
    [q EXCEPT !.pc = "done", !.status = status, !.detail = detail, !.result = result]

\* strftime('%Y%m%dT%H%M%SZ') and isoformat() of the clock
Strftime(t) == "20250101T00000" \o ToString(t) \o "Z"
Isoformat(t) == "2025-01-01T00:00:0" \o ToString(t) \o "+00:00"
\* str(uuid.uuid4())[:8], the i-th of the values it can take
RunId(i) == "a1b2c3d" \o ToString(i)

CJsonl == <<"extraction_results", ".jsonl">>
CReportHtml == <<"report", ".html">>
RunDir(t, i) == ARTIFACTS_DIR \o << <<"run_", Strftime(t), "_", RunId(i)>> >>

\* Path.mkdir(parents=True, exist_ok=True)
MkdirP(fsys, p, by) ==
    [q \in DOMAIN fsys \cup {SubSeq(p, 1, i) : i \in 1..Len(p)} |->
        IF q \in DOMAIN fsys THEN fsys[q] ELSE Dir(by)]

\* open(p, "w") and write: creates the file or replaces its content
WriteFile(fsys, p, by, data) ==
    [q \in DOMAIN fsys \cup {p} |-> IF q = p THEN File(by, data) ELSE fsys[q]]

-----------------------------------------------------------------------------
(* GET /health, GET /version, POST /extract, GET /artifacts/html *)

Tick ==
    /\ now < MaxTime
    /\ now' = now + 1
    /\ UNCHANGED <<env, fs, reqs>>

health(r) ==
    /\ reqs[r].op = "idle"
    /\ reqs' = [reqs EXCEPT ![r] =
            Respond([@ EXCEPT !.op = "health"], 200, <<>>,
                    [type |-> "health", status |-> "ok", time |-> Isoformat(now)])]
    /\ UNCHANGED <<env, now, fs>>

version(r) ==
    /\ reqs[r].op = "idle"
    /\ reqs' = [reqs EXCEPT ![r] =
            Respond([@ EXCEPT !.op = "version"], 200, <<>>,
                    [type |-> "version", app |-> APP_NAME, model_default |-> MODEL_DEFAULT])]
    /\ UNCHANGED <<env, now, fs>>

extract(r, body, header, outcome) ==
    /\ reqs[r].op = "idle"
    /\ LET api_key == require_api_key(header)
           res == _extract(ExtractRequest(body), api_key, env, outcome)
           q == [reqs[r] EXCEPT !.op = "extract", !.body = body, !.header = header,
                                !.api_key = api_key, !.called = res.called,
                                !.kwargs = res.kwargs, !.raw = res.raw, !.exc = res.exc,
                                !.failed_at = IF res.exc = NoExc THEN "" ELSE "extract",
                                !.trace = IF res.called THEN <<"lx.extract">> ELSE <<>>]
           err == HttpError("Extraction failed: ", res.exc)
       IN reqs' = [reqs EXCEPT ![r] =
            IF res.exc = NoExc
            THEN Respond(q, 200, <<>>, [type |-> "extract", data |-> jsonable_encoder(res.raw)])
            ELSE Respond(q, err.status, err.detail, NoResult)]
    /\ UNCHANGED <<env, now, fs>>

MSG_OUTSIDE == "Path is outside artifacts directory"
MSG_NOT_FOUND == "Not found"

\* line 172: str(p).startswith(str(ARTIFACTS_DIR.resolve()))
InsideArtifacts(fsys, p) ==
    StartsWith(PathStr(p), PathStr(Resolve(fsys, AbsPath(ARTIFACTS_DIR))))

\* line 174: p.exists() and p.suffix.lower() == ".html"
IsHtmlFile(fsys, p) == p \in DOMAIN fsys /\ Lower(Suffix(p)) = ".html"

get_html(r, path) ==
    /\ reqs[r].op = "idle"
    /\ LET p == Resolve(fs, path)
           q == [reqs[r] EXCEPT !.op = "get_html", !.query = path]
       IN reqs' = [reqs EXCEPT ![r] =
            IF ~InsideArtifacts(fs, p)
            THEN Respond(q, 400, <<MSG_OUTSIDE>>, NoResult)
            ELSE IF ~IsHtmlFile(fs, p)
            THEN Respond(q, 404, <<MSG_NOT_FOUND>>, NoResult)
            ELSE Respond(q, 200, <<>>,
                    [type |-> "file", path |-> p, media_type |-> "text/html",
                     content |-> fs[p].data])]
    /\ UNCHANGED <<env, now, fs>>

-----------------------------------------------------------------------------
(* POST /visualize *)

VisOrderMkdirFirst == <<"mkdir", "extract", "save", "render", "write">>

\* lines 126-149: the order of the handler's steps
VisOrder == <<"extract", "mkdir", "save", "render", "write">>

StepAfter(step) ==
    LET i == CHOOSE j \in 1..Len(VisOrder) : VisOrder[j] = step
    IN IF i = Len(VisOrder) THEN "return" ELSE VisOrder[i + 1]

JsonlPath(q) == q.base \o <<CJsonl>>
HtmlPath(q) == q.base \o <<CReportHtml>>

\* lines 151-155: after the last step the handler returns the three paths
Advance(q, step) ==
    IF StepAfter(step) = "return"
    THEN Respond(q, 200, <<>>,
            [type |-> "run", run_dir |-> PathStr(q.base),
             jsonl |-> PathStr(JsonlPath(q)), html |-> PathStr(HtmlPath(q))])
    ELSE [q EXCEPT !.pc = StepAfter(step)]

\* lines 156-162: an exception of any step ends the request with an error
Fail(q, step, e) ==
    LET err == HttpError("Visualization failed: ", e)
    IN Respond([q EXCEPT !.exc = e, !.failed_at = step], err.status, err.detail, NoResult)

OnFailureCleanup(fsys, base) ==
    [p \in {x \in DOMAIN fsys : base = <<>> \/ ~IsWithin(x, base)} |-> fsys[p]]

\* lines 156-162: what the except clauses do to the files of the run: nothing
OnFailure(fsys, base) == fsys

AtStep(r, step) == reqs[r].op = "visualize" /\ reqs[r].pc = step

\* the framework parses the body and resolves Depends(require_api_key)
\* before it calls the handler
visualize(r, body, header) ==
    /\ reqs[r].op = "idle"
    /\ reqs' = [reqs EXCEPT ![r] =
            [@ EXCEPT !.op = "visualize", !.pc = VisOrder[1], !.body = body,
                      !.header = header, !.api_key = require_api_key(header)]]
    /\ UNCHANGED <<env, now, fs>>

\* line 126: raw_results = _extract(req, api_key, return_raw=True)
VisExtract(r, outcome) ==
    /\ AtStep(r, "extract")
    /\ LET res == _extract(ExtractRequest(reqs[r].body), reqs[r].api_key, env, outcome)
           q == [reqs[r] EXCEPT !.called = res.called, !.kwargs = res.kwargs,
                                !.raw = res.raw,
                                !.trace = IF res.called THEN Append(@, "lx.extract") ELSE @]
       IN IF res.exc = NoExc
          THEN /\ reqs' = [reqs EXCEPT ![r] = Advance(q, "extract")]
               /\ fs' = fs
          ELSE /\ reqs' = [reqs EXCEPT ![r] = Fail(q, "extract", res.exc)]
               /\ fs' = OnFailure(fs, q.base)
    /\ UNCHANGED <<env, now>>

\* lines 129-131: run_id, base, base.mkdir(parents=True, exist_ok=True)
VisMkdir(r, i, outcome) ==
    /\ AtStep(r, "mkdir")
    /\ LET base == RunDir(now, i)
       IN IF outcome = "ok"
          THEN /\ fs' = MkdirP(fs, base, r)
               /\ reqs' = [reqs EXCEPT ![r] = Advance([@ EXCEPT !.base = base], "mkdir")]
          ELSE /\ fs' = OnFailure(fs, reqs[r].base)
               /\ reqs' = [reqs EXCEPT ![r] = Fail(@, "mkdir", Exc(outcome, MSG_OS))]
    /\ UNCHANGED <<env, now>>

\* lines 135-142: lx_io.save_annotated_documents writes the JSONL file
VisSave(r, outcome) ==
    /\ AtStep(r, "save")
    /\ LET q == [reqs[r] EXCEPT !.trace = Append(@, "lx_io.save_annotated_documents")]
       IN IF outcome = "ok"
          THEN /\ fs' = WriteFile(fs, JsonlPath(q), r, JsonlOf(r, q.raw))
               /\ reqs' = [reqs EXCEPT ![r] =
                        Advance([q EXCEPT !.wrote = (JsonlPath(q) :> JsonlOf(r, q.raw)) @@ @],
                                "save")]
          ELSE /\ fs' = OnFailure(fs, q.base)
               /\ reqs' = [reqs EXCEPT ![r] = Fail(q, "save", Exc(outcome, MSG_OS))]
    /\ UNCHANGED <<env, now>>

\* lines 145-146: html_text = lx.visualize(str(jsonl_path)), which renders
\* the file found at that path
VisRender(r, outcome) ==
    /\ AtStep(r, "render")
    /\ LET q == [reqs[r] EXCEPT !.trace = Append(@, "lx.visualize")]
       IN IF outcome = "ok" /\ JsonlPath(q) \in DOMAIN fs
          THEN /\ reqs' = [reqs EXCEPT ![r] =
                        Advance([q EXCEPT !.html_text = <<"html">> \o Tail(fs[JsonlPath(q)].data)],
                                "render")]
               /\ fs' = fs
          ELSE /\ reqs' = [reqs EXCEPT ![r] =
                        Fail(q, "render",
                             IF outcome = "ok" THEN Exc("FileNotFoundError", MSG_CAPABILITY)
                             ELSE Exc(outcome, MSG_CAPABILITY))]
               /\ fs' = OnFailure(fs, q.base)
    /\ UNCHANGED <<env, now>>

\* lines 148-155: the HTML file is opened, written, and the paths returned;
\* open may fail, and write may fail after open created an empty file
VisWrite(r, outcome) ==
    /\ AtStep(r, "write")
    /\ LET q == reqs[r]
       IN CASE outcome = "ok" ->
                /\ fs' = WriteFile(fs, HtmlPath(q), r, q.html_text)
                /\ reqs' = [reqs EXCEPT ![r] =
                        Advance([q EXCEPT !.wrote = (HtmlPath(q) :> q.html_text) @@ @],
                                "write")]
            [] outcome = "OSError" ->
                /\ fs' = OnFailure(fs, q.base)
                /\ reqs' = [reqs EXCEPT ![r] = Fail(q, "write", Exc("OSError", MSG_OS))]
            [] OTHER ->
                /\ fs' = OnFailure(WriteFile(fs, HtmlPath(q), r, <<>>), q.base)
                /\ reqs' = [reqs EXCEPT ![r] =
                        Fail([q EXCEPT !.wrote = (HtmlPath(q) :> <<>>) @@ @],
                             "write", Exc("OSError", MSG_OS))]
    /\ UNCHANGED <<env, now>>

-----------------------------------------------------------------------------
(* Specifications *)

Init ==
    /\ env \in EnvValues
    /\ now = 0
    /\ fs = InitFs
    /\ reqs = [r \in ConcSlots |-> IdleReq]

\* a slot no request has arrived in yet
Idle(r) == reqs[r].op = "idle"

AskedPaths == QueryPaths \cup {AbsPath(p) : p \in DOMAIN fs}

\* a single request, whatever its body and header
Next ==
    \/ Tick
    \/ \E r \in SeqSlots : health(r)
    \/ \E r \in SeqSlots : version(r)
    \/ \E r \in SeqSlots : Idle(r) /\ \E b \in Bodies, h \in Headers, o \in ExtractOutcomes :
            extract(r, b, h, o)
    \/ \E r \in SeqSlots : Idle(r) /\ \E p \in AskedPaths : get_html(r, p)
    \/ \E r \in SeqSlots : Idle(r) /\ \E b \in Bodies, h \in Headers : visualize(r, b, h)
    \/ \E r \in SeqSlots, o \in ExtractOutcomes : VisExtract(r, o)
    \/ \E r \in SeqSlots, i \in 1..NumIds, o \in MkdirOutcomes : VisMkdir(r, i, o)
    \/ \E r \in SeqSlots, o \in SaveOutcomes : VisSave(r, o)
    \/ \E r \in SeqSlots, o \in RenderOutcomes : VisRender(r, o)
    \/ \E r \in SeqSlots, o \in WriteOutcomes : VisWrite(r, o)

Spec == Init /\ [][Next]_vars

\* requests that run concurrently, with bodies that carry no optional field
NextConc ==
    \/ Tick
    \/ \E r \in ConcSlots : health(r)
    \/ \E r \in ConcSlots : version(r)
    \/ \E r \in ConcSlots : Idle(r) /\ \E b \in ConcBodies, h \in ConcHeaders, o \in ExtractOutcomes :
            extract(r, b, h, o)
    \/ \E r \in ConcSlots : Idle(r) /\ \E p \in AskedPaths : get_html(r, p)
    \/ \E r \in ConcSlots : Idle(r) /\ \E b \in ConcBodies, h \in ConcHeaders : visualize(r, b, h)
    \/ \E r \in ConcSlots, o \in ExtractOutcomes : VisExtract(r, o)
    \/ \E r \in ConcSlots, i \in 1..NumIds, o \in MkdirOutcomes : VisMkdir(r, i, o)
    \/ \E r \in ConcSlots, o \in SaveOutcomes : VisSave(r, o)
    \/ \E r \in ConcSlots, o \in RenderOutcomes : VisRender(r, o)
    \/ \E r \in ConcSlots, o \in WriteOutcomes : VisWrite(r, o)

SpecConc == Init /\ [][NextConc]_vars

-----------------------------------------------------------------------------
(* Properties *)

Slots == DOMAIN reqs
Done(r) == reqs[r].pc = "done"
\* the request of slot r as the handlers see it
Req(r) == ExtractRequest(reqs[r].body)
\* the resolved path a /artifacts/html request of slot r asked for
Asked(r) == Resolve(fs, reqs[r].query)
ArtifactsRoot == Resolve(fs, AbsPath(ARTIFACTS_DIR))
\* the detail messages that mention examples
MentionsExamples(detail) == detail = <<MSG_EXAMPLES>>

\* C1: a request with no examples, while ALLOW_EMPTY_EXAMPLES is disabled, is
\* answered 400 with a detail that mentions examples by /extract and by
\* /visualize, and lx.extract is never called for it.
C1_EmptyExamplesRejected ==
    \A r \in Slots :
        (/\ reqs[r].op \in {"extract", "visualize"}
         /\ Len(Req(r).examples) = 0
         /\ ~allow_empty_examples(env))
        => /\ ~reqs[r].called
           /\ reqs[r].op = "visualize" => reqs[r].pc \in {"extract", "done"}
           /\ Done(r) => reqs[r].status = 400 /\ MentionsExamples(reqs[r].detail)

\* both endpoints have rejected a request without examples, one that left the
\* field out and one that sent an empty list
C1_Witness ==
    /\ ~allow_empty_examples(env)
    /\ \E r1, r2 \in Slots :
        /\ reqs[r1].op = "extract" /\ Done(r1) /\ reqs[r1].status = 400
        /\ ~reqs[r1].body.has_examples
        /\ reqs[r2].op = "visualize" /\ Done(r2) /\ reqs[r2].status = 400
        /\ reqs[r2].body.has_examples /\ reqs[r2].body.examples = <<>>

\* C2: every error lx.extract raises, of whatever kind, is answered 500 with
\* the original message attached; the only 400 of /extract and /visualize is
\* the empty-examples precondition.
C2_CapabilityErrorsAre500 ==
    \A r \in Slots :
        (reqs[r].op \in {"extract", "visualize"} /\ Done(r))
        => /\ (reqs[r].called /\ reqs[r].failed_at = "extract")
                => /\ reqs[r].status = 500
                   /\ reqs[r].detail[Len(reqs[r].detail)] = reqs[r].exc.msg
           /\ reqs[r].status = 400
                => ~reqs[r].called /\ reqs[r].exc.msg = MSG_EXAMPLES

\* C3: a tuning knob is among the arguments of lx.extract only if the caller
\* wrote it in the body, and never as null.
C3_OnlyProvidedKnobsForwarded ==
    \A r \in Slots :
        reqs[r].called
        => \A k \in Knobs \cap DOMAIN reqs[r].kwargs :
                k \in Provided(reqs[r].body) /\ reqs[r].kwargs[k] # None

\* C4: /artifacts/html answers 400 "outside artifacts directory" for every
\* path whose resolved form is neither the artifacts root nor below it.
C4_OutsideRootRejected ==
    \A r \in Slots :
        (reqs[r].op = "get_html" /\ Done(r) /\ ~IsWithin(Asked(r), ArtifactsRoot))
        => reqs[r].status = 400 /\ reqs[r].detail = <<MSG_OUTSIDE>>

\* C5: two successful /visualize requests use distinct run directories, each
\* with its JSONL and its HTML file, and no request writes a file into a run
\* directory another request created.
C5_DistinctRunDirs ==
    /\ \A r1, r2 \in Slots :
        (/\ r1 # r2
         /\ reqs[r1].op = "visualize" /\ Done(r1) /\ reqs[r1].status = 200
         /\ reqs[r2].op = "visualize" /\ Done(r2) /\ reqs[r2].status = 200)
        => /\ reqs[r1].base # reqs[r2].base
           /\ {JsonlPath(reqs[r1]), HtmlPath(reqs[r1])} \subseteq DOMAIN fs
    /\ \A p \in DOMAIN fs :
        (fs[p].kind = "file" /\ fs[p].by \in Slots)
        => fs[SubSeq(p, 1, Len(p) - 1)].by = fs[p].by

\* C6: when lx.visualize fails after the JSONL file was written, /visualize
\* writes a fallback HTML file and still answers with the three paths.
C6_FallbackHtml ==
    \A r \in Slots :
        (reqs[r].op = "visualize" /\ reqs[r].failed_at = "render")
        => /\ reqs[r].status = 200
           /\ reqs[r].result.type = "run"
           /\ HtmlPath(reqs[r]) \in DOMAIN fs

\* C7: for a path inside the artifacts root /artifacts/html answers 404 when
\* the path does not exist or its extension, lower-cased, is not .html, and
\* 200 with the file as text/html otherwise; a path outside the root that
\* does not exist is answered 400, never 404.
C7_InsideRootStatus ==
    \A r \in Slots :
        (reqs[r].op = "get_html" /\ Done(r))
        => LET p == Asked(r)
               missing == p \notin DOMAIN fs
           IN /\ (IsWithin(p, ArtifactsRoot) /\ (missing \/ Lower(Suffix(p)) # ".html"))
                    => reqs[r].status = 404
              /\ (IsWithin(p, ArtifactsRoot) /\ ~missing /\ Lower(Suffix(p)) = ".html")
                    => /\ reqs[r].status = 200
                       /\ reqs[r].result.type = "file"
              /\ (~IsWithin(p, ArtifactsRoot) /\ missing) => reqs[r].status = 400

\* C8: the api_key handed to lx.extract is the x-api-key header when the
\* request carries one, whatever its value, and the configured default key
\* otherwise.
C8_ApiKeyForwarded ==
    \A r \in Slots :
        reqs[r].called
        => /\ "api_key" \in DOMAIN reqs[r].kwargs
           /\ reqs[r].header # None => reqs[r].kwargs.api_key = reqs[r].header
           /\ reqs[r].header = None => reqs[r].kwargs.api_key = API_KEY

\* lx.extract was called with the empty key a caller sent in the header
C8_Witness ==
    \E r \in Slots :
        /\ reqs[r].op = "visualize" /\ reqs[r].called
        /\ reqs[r].header = "" /\ reqs[r].kwargs.api_key = ""

\* the names in a trace of capability calls are all different
NoRepeat(trace) == \A i, j \in 1..Len(trace) : trace[i] = trace[j] => i = j

\* C9: a /visualize request that fails after it created its run directory
\* leaves the directory and every file it wrote in place, as written, answers
\* with the error, and has called no capability twice.
C9_NoRollback ==
    \A r \in Slots :
        (/\ reqs[r].op = "visualize" /\ Done(r)
         /\ reqs[r].status # 200 /\ reqs[r].base # <<>>)
        => /\ reqs[r].base \in DOMAIN fs /\ fs[reqs[r].base].kind = "dir"
           /\ \A p \in DOMAIN reqs[r].wrote :
                /\ p \in DOMAIN fs /\ fs[p].kind = "file"
                /\ fs[p].by = r => fs[p].data = reqs[r].wrote[p]
           /\ reqs[r].status \in {400, 500}
           /\ NoRepeat(reqs[r].trace)

\* a request failed in lx.visualize: its run directory holds the JSONL file
\* it wrote and no HTML file
C9_Witness ==
    \E r \in Slots :
        /\ reqs[r].op = "visualize" /\ Done(r) /\ reqs[r].failed_at = "render"
        /\ reqs[r].status = 500
        /\ JsonlPath(reqs[r]) \in DOMAIN fs /\ fs[JsonlPath(reqs[r])].by = r
        /\ HtmlPath(reqs[r]) \notin DOMAIN fs

\* the handlers and outcomes that must leave the file system alone
TouchesNoFile(q) ==
    \/ q.op \in {"extract", "health", "version", "get_html"}
    \/ q.op = "visualize" /\ q.failed_at = "extract"

\* C10: a /visualize request that fails in the precondition or in lx.extract
\* has created no directory and no file, and no step of /extract, /health,
\* /version or /artifacts/html changes the file system.
C10_ExtractionBeforeFiles ==
    /\ [](\A r \in Slots :
            (reqs[r].op = "visualize" /\ reqs[r].failed_at = "extract")
            => /\ reqs[r].base = <<>> /\ DOMAIN reqs[r].wrote = {}
               /\ \A p \in DOMAIN fs : fs[p].by # r)
    /\ [][\A r \in Slots :
            (reqs'[r] # reqs[r] /\ TouchesNoFile(reqs'[r])) => fs' = fs]_vars

\* a /visualize request failed inside lx.extract while another request wrote
\* its run directory
C10_Witness ==
    \E r1, r2 \in Slots :
        /\ reqs[r1].op = "visualize" /\ Done(r1)
        /\ reqs[r1].called /\ reqs[r1].failed_at = "extract"
        /\ reqs[r2].op = "visualize" /\ reqs[r2].base \in DOMAIN fs

====
